---- MODULE Spec2Model ----
(***************************************************************************)
(* RetroHash: the Collection Filter (src/filter_roms.py) and the Catalog   *)
(* Builder (src/main.py, src/retroachievements/client.py) as state         *)
(* machines.                                                               *)
(*                                                                         *)
(* Strings the code inspects are modelled by their parts: a display name   *)
(* is a sequence of tokens (a substring test is a token test), a file name *)
(* is a stem and an extension, an archive member has a directory prefix, a *)
(* stem and an extension, and an HTTP error message is a sequence of       *)
(* characters.                                                             *)
(***************************************************************************)
EXTENDS Integers, Sequences, FiniteSets, TLC

VARIABLES
    pc,                \* position in the pipeline being run
    games_data,        \* filter_roms: the light catalog loaded from JSON
    rom_files,         \* filter_roms: the candidate files, in scan order
    supported_hashes,  \* filter_roms: MD5 -> Name
    game_priority,     \* filter_roms: game_id -> best MD5
    found_md5s,        \* filter_roms: insertion-ordered dict game_id -> (MD5, file)
    scan_i,            \* filter_roms: number of candidates scanned so far
    copy_i,            \* filter_roms: number of kept entries materialized so far
    kept_count,        \* filter_roms: ROMs copied
    output_folder,     \* filter_roms: path -> content digest in filtered/
    outcomes,          \* history: what happened to each kept entry, in order
    percent,           \* filter_roms: the percentage printed by the report
    all_n64_games,     \* get_all_n64_games: the list the service returns
    filtered_games,    \* get_all_n64_games: the titles to process
    title_i,           \* get_all_n64_games: position in filtered_games
    retry_count,       \* get_all_n64_games: retry_count of the current title
    all_games_data,    \* get_all_n64_games: the records fetched so far
    history,           \* history: the requests and sleeps of the current title
    requested,         \* history: the ids a per-title request was made for
    saved,             \* the artifacts written: "full", "light"
    full_json,         \* data/n64_games_data.json
    light_json         \* data/n64_games_data_light.json

filter_vars == <<games_data, rom_files, supported_hashes, game_priority,
                 found_md5s, scan_i, copy_i, kept_count, output_folder,
                 outcomes, percent>>

catalog_vars == <<all_n64_games, filtered_games, title_i, retry_count,
                  all_games_data, history, requested, saved, full_json, light_json>>

\* Python's None.
NoneVal == "None"

\* Sequences over S of length at most n.
SeqsUpTo(S, n) == UNION {[1..k -> S] : k \in 0..n}

\* The elements of a sequence.
Range(s) == {s[k] : k \in DOMAIN s}

\* The permutations of 1..n.
Perms(n) == {q \in [1..n -> 1..n] : \A a, b \in 1..n : a # b => q[a] # q[b]}

\* The permutations of 1..n for the lengths the model meets, computed once.
PermTable == [n \in 0..5 |-> Perms(n)]

\* All permutations of a sequence.
PermsOf(s) == {[k \in DOMAIN s |-> s[p[k]]] : p \in PermTable[Len(s)]}

(***************************************************************************)
(* Display names and MD5 strings.                                          *)
(***************************************************************************)
NamePlain  == <<"Game">>
NameUSA    == <<"Game", "(USA)">>
NameEurope == <<"Game", "(Europe)">>
NameFrance == <<"Game", "(France)">>
NameMulti  == <<"Game", "(Europe)", "(En", ",Fr", ",De)">>

\* name.__contains__(token)
Contains(name, token) == \E k \in DOMAIN name : name[k] = token

\* str.upper() on the MD5 strings of the model.
Upper(s) ==
    CASE s = "aa" -> "AA"
      [] s = "bb" -> "BB"
      [] OTHER -> s

\* str.lower() on the file suffixes of the model.
Lower(s) ==
    CASE s = ".ZIP" -> ".zip"
      [] s = ".Z64" -> ".z64"
      [] OTHER -> s

(***************************************************************************)
(* filter_roms, first loop: supported_hashes and game_priority.            *)
(***************************************************************************)
\* The priority of a display name.
Priority(name) ==
    IF Contains(name, "(France)") \/ Contains(name, ",Fr")
         \/ Contains(name, "(Fr)") \/ Contains(name, "(Fr,")
    THEN 3
    ELSE IF Contains(name, "(Europe)") THEN 2
    ELSE IF Contains(name, "(USA)") THEN 1
    ELSE 0

\* A faulty variant of IsBetter: a tie replaces the best hash.
IsBetterTie(priority, best_priority) == priority >= best_priority

\* if priority > best_priority
IsBetter(priority, best_priority) == priority > best_priority

\* A faulty variant of DictPut: a key already present keeps its value.
DictPutKeep(d, key, value) ==
    [x \in DOMAIN d \cup {key} |-> IF x \in DOMAIN d THEN d[x] ELSE value]

\* dict assignment d[key] = value
DictPut(d, key, value) ==
    [x \in DOMAIN d \cup {key} |-> IF x = key THEN value ELSE d[x]]

\* The body of "for hash_info in hashes", on the accumulator
\* [sh: supported_hashes, best_hash, best_priority].
HashStep(acc, hash_info) ==
    LET md5 == Upper(hash_info.MD5)
        name == hash_info.Name
        priority == Priority(name)
    IN  IF md5 = ""
        THEN acc
        ELSE IF IsBetter(priority, acc.best_priority)
             THEN [sh |-> DictPut(acc.sh, md5, name), best_hash |-> md5,
                   best_priority |-> priority]
             ELSE [acc EXCEPT !.sh = DictPut(acc.sh, md5, name)]

RECURSIVE HashLoop(_, _, _)
HashLoop(acc, hashes, k) ==
    IF k > Len(hashes) THEN acc
    ELSE HashLoop(HashStep(acc, hashes[k]), hashes, k + 1)

\* The body of "for game in games_data", on the accumulator [sh, gp].
GameStep(idx, game) ==
    LET r == HashLoop([sh |-> idx.sh, best_hash |-> NoneVal, best_priority |-> -1],
                      game.supported_hashes, 1)
    IN  [sh |-> r.sh,
         gp |-> IF r.best_hash # NoneVal
                THEN DictPut(idx.gp, game.game_id, r.best_hash)
                ELSE idx.gp]

RECURSIVE GameLoop(_, _, _)
GameLoop(idx, games, k) ==
    IF k > Len(games) THEN idx
    ELSE GameLoop(GameStep(idx, games[k]), games, k + 1)

\* The empty dict.
EmptyDict == [x \in {} |-> NoneVal]

\* supported_hashes and game_priority of a catalog.
BuildIndex(games) == GameLoop([sh |-> EmptyDict, gp |-> EmptyDict], games, 1)

(***************************************************************************)
(* Candidate files.  A file is [stem, ext, state, data, members]: state is *)
(* "ok", "EIO" (unreadable) or "BadZip"; data is the content digest of a   *)
(* loose file; members are the entries of an archive, in namelist() order, *)
(* each [dir, stem, ext, digest].                                          *)
(***************************************************************************)
RomExts == {".z64", ".n64", ".v64"}

\* rom_file.name / Path(member).name as a pair.
FileName(f) == <<f.stem, f.ext>>

\* [f for f in zip_ref.namelist() if f.endswith(('.z64', '.n64', '.v64'))]
RomMembers(members) == SelectSeq(members, LAMBDA m : m.ext \in RomExts)

\* calculate_md5_from_zip: the digest of the first ROM member, or None.
calculate_md5_from_zip(f) ==
    IF f.state # "ok" THEN NoneVal
    ELSE IF RomMembers(f.members) = <<>> THEN NoneVal
    ELSE RomMembers(f.members)[1].digest

\* calculate_md5: the digest of the content; "IOError" when open/read raises.
calculate_md5(f) == IF f.state # "ok" THEN "IOError" ELSE f.data

\* The md5 the scan computes for a candidate (None and IOError both skip it).
ScanMd5(f) ==
    IF Lower(f.ext) = ".zip" THEN calculate_md5_from_zip(f) ELSE calculate_md5(f)

(***************************************************************************)
(* filter_roms, first pass: found_md5s.  The dict is a sequence of         *)
(* [game_id, md5, rom_file] in insertion order.                            *)
(***************************************************************************)
\* game_id in found_md5s
InFound(found, game_id) == \E k \in DOMAIN found : found[k].game_id = game_id

\* A faulty variant of PutFound: a second entry for the title is added.
PutFoundAppend(found, game_id, md5, rom_file) ==
    Append(found, [game_id |-> game_id, md5 |-> md5, rom_file |-> rom_file])

\* found_md5s[game_id] = (md5, rom_file)
PutFound(found, game_id, md5, rom_file) ==
    LET e == [game_id |-> game_id, md5 |-> md5, rom_file |-> rom_file]
    IN  IF InFound(found, game_id)
        THEN [k \in DOMAIN found |-> IF found[k].game_id = game_id THEN e ELSE found[k]]
        ELSE Append(found, e)

\* game_priority.get(game_id)
DictGet(d, key) == IF key \in DOMAIN d THEN d[key] ELSE NoneVal

\* A faulty variant of HasPriority: any later match replaces the kept one.
HasPriorityAlways(best_md5, md5) == TRUE

\* if best_md5 and md5 == best_md5
HasPriority(best_md5, md5) == best_md5 # NoneVal /\ md5 = best_md5

\* The decision for one (title, candidate) match.
Decide(found, gp, game_id, md5, rom_file) ==
    IF ~InFound(found, game_id)
    THEN PutFound(found, game_id, md5, rom_file)
    ELSE IF HasPriority(DictGet(gp, game_id), md5)
         THEN PutFound(found, game_id, md5, rom_file)
         ELSE found

\* Whether a title's list holds the md5 (the inner loop up to its break).
Lists(game, md5) ==
    \E k \in DOMAIN game.supported_hashes : Upper(game.supported_hashes[k].MD5) = md5

\* "for game in games_data" of the first pass, for one candidate.
RECURSIVE MatchLoop(_, _, _, _, _, _)
MatchLoop(found, gp, games, k, md5, rom_file) ==
    IF k > Len(games) THEN found
    ELSE MatchLoop(IF Lists(games[k], md5)
                   THEN Decide(found, gp, games[k].game_id, md5, rom_file)
                   ELSE found,
                   gp, games, k + 1, md5, rom_file)

\* The body of "for i, rom_file in enumerate(rom_files, 1)".
ScanStep(found, sh, gp, games, f) ==
    LET md5 == ScanMd5(f)
    IN  IF md5 \in {NoneVal, "IOError"} THEN found
        ELSE IF md5 \in DOMAIN sh
             THEN MatchLoop(found, gp, games, 1, md5, FileName(f))
             ELSE found

(***************************************************************************)
(* Actions of filter_roms.                                                 *)
(***************************************************************************)
\* Lines 50-110: load the catalog, build the index, list the candidates.
LoadCatalog ==
    /\ pc = "load"
    /\ LET idx == BuildIndex(games_data)
       IN  /\ supported_hashes' = idx.sh
           /\ game_priority' = idx.gp
    /\ pc' = IF Len(rom_files) > 0 THEN "scan" ELSE "copy"
    /\ UNCHANGED <<games_data, rom_files, found_md5s, scan_i, copy_i, kept_count,
                   output_folder, outcomes, percent>>
    /\ UNCHANGED catalog_vars

\* Lines 113-147: one iteration of the first pass.
ScanFile ==
    /\ pc = "scan"
    /\ scan_i < Len(rom_files)
    /\ found_md5s' = ScanStep(found_md5s, supported_hashes, game_priority,
                              games_data, rom_files[scan_i + 1])
    /\ scan_i' = scan_i + 1
    /\ pc' = IF scan_i + 1 < Len(rom_files) THEN "scan" ELSE "copy"
    /\ UNCHANGED <<games_data, rom_files, supported_hashes, game_priority, copy_i,
                   kept_count, output_folder, outcomes, percent>>
    /\ UNCHANGED catalog_vars

(***************************************************************************)
(* filter_roms, second pass.  output_folder maps a path <<dir, stem, ext>> *)
(* under filtered/ to the digest of the file's content.                    *)
(***************************************************************************)
\* The candidate a kept entry names.
FileOf(files, name) == CHOOSE f \in Range(files) : FileName(f) = name

\* A file written (or overwritten) at a path.
WriteAt(out, path, digest) == DictPut(out, path, digest)

\* A path removed.
RemoveAt(out, path) == [x \in DOMAIN out \ {path} |-> out[x]]

\* zip_ref.extract(rom_file_in_zip, output_folder)
Extract(out, m) == WriteAt(out, <<m.dir, m.stem, m.ext>>, m.digest)

\* extracted_path.rename(final_path) when the two differ.
Flatten(out, m) ==
    IF m.dir # ""
    THEN WriteAt(RemoveAt(out, <<m.dir, m.stem, m.ext>>), <<"", m.stem, m.ext>>, m.digest)
    ELSE out

\* What can happen while one kept entry is materialized.
CopyEvents(f) ==
    IF Lower(f.ext) = ".zip"
    THEN {"ok", "BadZipFile", "NoEntry", "OSError"}
           \cup (IF RomMembers(f.members)[1].dir # "" THEN {"RenameError"} ELSE {})
    ELSE {"ok", "OSError"}

\* A faulty variant of Counted: a failed title is counted as copied.
CountedAlways(ev) == TRUE

\* Whether the iteration reaches "kept_count += 1".
Counted(ev) == ev = "ok"

\* The body of "for i, (game_id, (md5, rom_file)) in enumerate(found_md5s.items(), 1)"
\* under event ev: the new [out, kept].
CopyStep(out, kept, f, ev) ==
    LET m == RomMembers(f.members)[1]
        written ==
            IF Lower(f.ext) = ".zip"
            THEN CASE ev = "ok" -> Flatten(Extract(out, m), m)
                   [] ev = "RenameError" -> Extract(out, m)
                   [] OTHER -> out
            ELSE IF ev = "ok" THEN WriteAt(out, <<"", f.stem, f.ext>>, f.data) ELSE out
    IN  [out |-> written, kept |-> IF Counted(ev) THEN kept + 1 ELSE kept]

\* Lines 153-180: one iteration of the second pass.
CopyFile ==
    /\ pc = "copy"
    /\ copy_i < Len(found_md5s)
    /\ LET f == FileOf(rom_files, found_md5s[copy_i + 1].rom_file)
       IN  \E ev \in CopyEvents(f) :
              LET r == CopyStep(output_folder, kept_count, f, ev)
              IN  /\ output_folder' = r.out
                  /\ kept_count' = r.kept
                  /\ outcomes' = Append(outcomes, ev)
    /\ copy_i' = copy_i + 1
    /\ UNCHANGED <<pc, games_data, rom_files, supported_hashes, game_priority,
                   found_md5s, scan_i, percent>>
    /\ UNCHANGED catalog_vars

\* total_games = len(games_data)
total_games == Len(games_data)

\* Lines 182-196: the report; kept_count*100//total_games raises
\* ZeroDivisionError, which nothing catches, when the catalog is empty.
Report ==
    /\ pc = "copy"
    /\ copy_i = Len(found_md5s)
    /\ IF total_games = 0
       THEN /\ pc' = "crashed"
            /\ UNCHANGED percent
       ELSE /\ pc' = "done"
            /\ percent' = (kept_count * 100) \div total_games
    /\ UNCHANGED <<games_data, rom_files, supported_hashes, game_priority,
                   found_md5s, scan_i, copy_i, kept_count, output_folder, outcomes>>
    /\ UNCHANGED catalog_vars

(***************************************************************************)
(* Inputs of filter_roms.                                                  *)
(***************************************************************************)
\* Most candidate files in the ROMs folder.
MaxFiles == 3

\* Most checksum records of the title whose priority is examined alone.
MaxHashes == 3

GameIds == {1, 2}

\* game_title of a catalog entry.
TitleOf(id) == <<"Title", id>>

\* Sequences of distinct elements of S.
DistinctSeqs(S) ==
    {q \in SeqsUpTo(S, Cardinality(S)) : \A a, b \in DOMAIN q : a # b => q[a] # q[b]}

\* Catalogs whose titles have distinct ids and checksum lists drawn from lists.
Catalogs(idseqs, lists) ==
    UNION {{[k \in DOMAIN ids |->
                [game_id |-> ids[k], game_title |-> TitleOf(ids[k]),
                 supported_hashes |-> hl[k]]] : hl \in [DOMAIN ids -> lists]}
           : ids \in idseqs}

LooseFile(stem, state, data) ==
    [stem |-> stem, ext |-> ".z64", state |-> state, data |-> data, members |-> <<>>]

ZipFile(stem, state, members) ==
    [stem |-> stem, ext |-> ".zip", state |-> state, data |-> NoneVal, members |-> members]

Member(dir, stem, ext, digest) ==
    [dir |-> dir, stem |-> stem, ext |-> ext, digest |-> digest]

\* The folder listing: glob("*.z64") + ... + glob("*.zip"), each in any order,
\* file names distinct.
FolderListings(loose, zips, n) ==
    {l \o z : l \in {q \in SeqsUpTo(loose, n) :
                        \A a, b \in DOMAIN q : a # b => q[a].stem # q[b].stem},
              z \in {q \in SeqsUpTo(zips, n) :
                        \A a, b \in DOMAIN q : a # b => q[a].stem # q[b].stem}}

\* The state of filter_roms when it is entered.
FilterStart ==
    /\ pc = "load"
    /\ supported_hashes = EmptyDict
    /\ game_priority = EmptyDict
    /\ found_md5s = <<>>
    /\ scan_i = 0
    /\ copy_i = 0
    /\ kept_count = 0
    /\ output_folder = EmptyDict
    /\ outcomes = <<>>
    /\ percent = NoneVal
    /\ all_n64_games = <<>>
    /\ filtered_games = <<>>
    /\ title_i = 0
    /\ retry_count = 0
    /\ all_games_data = <<>>
    /\ history = <<>>
    /\ requested = {}
    /\ saved = {}
    /\ full_json = <<>>
    /\ light_json = <<>>

\* Selection: catalogs of up to two titles with up to two records each, tagged
\* or not, over loose candidates.
SelectRecords == [MD5 : {"aa", "BB"}, Name : {NamePlain, NameUSA, NameFrance}]

SelectStems == <<"f1", "f2", "f3", "f4", "f5">>

SelectListings ==
    UNION {{[k \in 1..n |-> LooseFile(SelectStems[k], "ok", d[k])] : d \in [1..n -> {"AA", "BB"}]}
           : n \in 0..MaxFiles}

InitSelect ==
    /\ FilterStart
    /\ games_data \in Catalogs(DistinctSeqs(GameIds), SeqsUpTo(SelectRecords, 2))
    /\ rom_files \in SelectListings

\* The whole run: catalogs of up to two titles with at most one record each,
\* over loose files and archives that may collide, fail or hold no ROM.
RunRecords == [MD5 : {"aa", "BB"}, Name : {NamePlain}]

RunLoose ==
    {LooseFile(stem, "ok", d) : stem \in {"a", "b"}, d \in {"AA", "BB"}}
    \cup {LooseFile(stem, "EIO", NoneVal) : stem \in {"a", "b"}}

RunMembers ==
    {<<Member("", "readme", ".txt", "XX")>>,
     <<Member("", "a", ".Z64", "AA"), Member("", "b", ".z64", "BB")>>}
    \cup {<<Member(dir, "a", ".z64", d)>> : dir \in {"", "sub"}, d \in {"AA", "BB"}}

RunZips ==
    {ZipFile(stem, "ok", m) : stem \in {"p", "q"}, m \in RunMembers}
    \cup {ZipFile(stem, "BadZip", <<>>) : stem \in {"p", "q"}}

InitFilter ==
    /\ FilterStart
    /\ games_data \in Catalogs({<<>>, <<1>>, <<1, 2>>}, SeqsUpTo(RunRecords, 1))
    /\ rom_files \in {l \in FolderListings(RunLoose, RunZips, MaxFiles) : Len(l) <= MaxFiles}

\* One title alone, its records in any order, no candidates.
PriorityRecords == [MD5 : {"", "aa", "AA", "bb"}, Name : {NamePlain, NameUSA, NameEurope, NameMulti}]

InitPriority ==
    /\ FilterStart
    /\ \E n \in 0..MaxHashes : \E hashes \in [1..n -> PriorityRecords] :
          games_data = <<[game_id |-> 1, game_title |-> TitleOf(1),
                          supported_hashes |-> hashes]>>
    /\ rom_files = <<>>

vars == <<pc, filter_vars, catalog_vars>>

NextSelect == LoadCatalog \/ ScanFile

NextFilter == LoadCatalog \/ ScanFile \/ CopyFile \/ Report

NextPriority == LoadCatalog

SpecSelect == InitSelect /\ [][NextSelect]_vars

SpecFilter == InitFilter /\ [][NextFilter]_vars

SpecPriority == InitPriority /\ [][NextPriority]_vars

(***************************************************************************)
(* Properties of the selection (SpecSelect).                               *)
(***************************************************************************)
\* The candidates scanned so far, by position.
Scanned == 1..scan_i

\* The digests a title lists, as the code compares them.
DigestsOf(game) ==
    {Upper(game.supported_hashes[k].MD5) : k \in DOMAIN game.supported_hashes} \ {""}

\* The scanned candidates whose digest is md5.
ScannedWith(md5) == {k \in Scanned : ScanMd5(rom_files[k]) = md5}

\* The scanned candidates matching any digest of the title.
ScannedFor(game) == {k \in Scanned : ScanMd5(rom_files[k]) \in DigestsOf(game)}

\* A title with checksum records none of which carries a region tag.
Untagged(game) ==
    /\ DigestsOf(game) # {}
    /\ \A k \in DOMAIN game.supported_hashes : Priority(game.supported_hashes[k].Name) = 0

\* C1: at every step of the scan found_md5s holds at most one entry per
\* title_id, and each entry's digest is listed for its title and is the digest
\* of the recorded source file, which has been scanned.
DedupInvariant ==
    /\ \A a, b \in DOMAIN found_md5s :
          a # b => found_md5s[a].game_id # found_md5s[b].game_id
    /\ \A a \in DOMAIN found_md5s :
          /\ \E g \in DOMAIN games_data :
                /\ games_data[g].game_id = found_md5s[a].game_id
                /\ found_md5s[a].md5 \in DigestsOf(games_data[g])
          /\ \E k \in ScannedWith(found_md5s[a].md5) :
                FileName(rom_files[k]) = found_md5s[a].rom_file

\* C1's case: the scan is over, two titles list one digest and both are kept,
\* and one of them had three matching candidates.
DedupWitness ==
    /\ pc = "copy"
    /\ Len(games_data) = 2
    /\ DigestsOf(games_data[1]) \cap DigestsOf(games_data[2]) # {}
    /\ Len(found_md5s) = 2
    /\ found_md5s[1].md5 = found_md5s[2].md5
    /\ Cardinality(ScannedFor(games_data[1])) = 3

\* C2: at the end of the scan, a title whose preferred digest was the digest of
\* some scanned candidate is kept with that digest, and with that candidate
\* when it is the only one.
PreferredWins ==
    pc = "copy" =>
        \A g \in DOMAIN games_data :
            LET id == games_data[g].game_id
                having == IF id \in DOMAIN game_priority
                          THEN ScannedWith(game_priority[id]) ELSE {}
            IN  having # {} =>
                    \E a \in DOMAIN found_md5s :
                        /\ found_md5s[a].game_id = id
                        /\ found_md5s[a].md5 = game_priority[id]
                        /\ Cardinality(having) = 1 =>
                              \A k \in having : found_md5s[a].rom_file = FileName(rom_files[k])

\* C2's case: a title's preferred candidate is scanned between two other
\* candidates of the same title.
PreferredWitness ==
    /\ pc = "copy"
    /\ Len(rom_files) = 3
    /\ \E g \in DOMAIN games_data :
          LET id == games_data[g].game_id
          IN  /\ id \in DOMAIN game_priority
              /\ ~Untagged(games_data[g])
              /\ ScannedWith(game_priority[id]) = {2}
              /\ ScannedFor(games_data[g]) = {1, 2, 3}
              /\ \E a \in DOMAIN found_md5s :
                    /\ found_md5s[a].game_id = id
                    /\ found_md5s[a].rom_file = FileName(rom_files[2])

\* C4: an untagged title has no preferred digest, and the candidate kept for
\* it is the first scanned candidate matching any of its digests.
UntaggedFirstWins ==
    pc # "load" =>
        \A g \in DOMAIN games_data :
            Untagged(games_data[g]) =>
                /\ games_data[g].game_id \notin DOMAIN game_priority
                /\ \A a \in DOMAIN found_md5s :
                      found_md5s[a].game_id = games_data[g].game_id =>
                          \A k \in ScannedFor(games_data[g]) :
                              (\A j \in ScannedFor(games_data[g]) : k <= j) =>
                                  found_md5s[a].rom_file = FileName(rom_files[k])

(***************************************************************************)
(* Properties of the priority index (SpecPriority).                        *)
(***************************************************************************)
\* The records the first loop does not skip, by position.
ValidRecords(hashes) == {k \in DOMAIN hashes : Upper(hashes[k].MD5) # ""}

\* A title with at least one region-tagged checksum record.
Tagged(game) ==
    \E k \in ValidRecords(game.supported_hashes) :
        Priority(game.supported_hashes[k].Name) > 0

\* The records of highest priority, by position.
TopRecords(hashes) ==
    {k \in ValidRecords(hashes) :
        \A j \in ValidRecords(hashes) : Priority(hashes[j].Name) <= Priority(hashes[k].Name)}

\* The digests of the records of highest priority.
TopDigests(hashes) == {Upper(hashes[k].MD5) : k \in TopRecords(hashes)}

\* The preferred digest the first loop computes for a title given alone.
PreferredOf(game) == DictGet(BuildIndex(<<game>>).gp, game.game_id)

\* The preferred digest is the same for every order of the title's records.
SameForEveryOrder(game) ==
    \A p \in PermsOf(game.supported_hashes) :
        PreferredOf([game EXCEPT !.supported_hashes = p]) = PreferredOf(game)

\* C3, as claimed: for every title with a region-tagged record the preferred
\* digest is the same for every permutation of its record list, ties included.
PriorityOrderIndependent ==
    pc # "load" =>
        \A g \in DOMAIN games_data :
            Tagged(games_data[g]) =>
                /\ DictGet(game_priority, games_data[g].game_id) = PreferredOf(games_data[g])
                /\ SameForEveryOrder(games_data[g])

\* C3, amended: for every title with a region-tagged record the preferred
\* digest is the digest of the first record, in list order, of the highest
\* priority present; it is the same for every permutation of the list when
\* the records of highest priority all carry one digest.
PriorityFirstHighest ==
    pc # "load" =>
        \A g \in DOMAIN games_data :
            LET game == games_data[g]
                hashes == game.supported_hashes
            IN  Tagged(game) =>
                    /\ \E k \in TopRecords(hashes) :
                          /\ \A j \in TopRecords(hashes) : k <= j
                          /\ DictGet(game_priority, game.game_id) = Upper(hashes[k].MD5)
                    /\ Cardinality(TopDigests(hashes)) = 1 => SameForEveryOrder(game)

\* C3's case: three records, two digests, the single record of highest
\* priority last in the list.
PriorityWitness ==
    /\ pc # "load"
    /\ Len(games_data) = 1
    /\ Tagged(games_data[1])
    /\ Len(games_data[1].supported_hashes) = 3
    /\ TopRecords(games_data[1].supported_hashes) = {3}
    /\ Cardinality(DigestsOf(games_data[1])) = 2
    /\ game_priority[1] = Upper(games_data[1].supported_hashes[3].MD5)

(***************************************************************************)
(* Properties of the whole run (SpecFilter).                               *)
(***************************************************************************)
\* C7: the report's percentage is kept_count * 100 integer-divided by the
\* number of catalog titles, and the report completes, without a division by
\* zero, even when the catalog is empty.
ReportGuarded ==
    /\ pc = "done" => percent = (kept_count * 100) \div total_games
    /\ pc # "crashed"

\* The kept entries whose materialization ran to the end, by position.
Succeeded == {k \in DOMAIN outcomes : outcomes[k] = "ok"}

\* C8: a kept title whose materialization fails is not counted, the titles
\* after it are still materialized, and kept_count is the number of kept titles
\* whose materialization succeeded.
MaterializeFailureIsolated ==
    /\ Len(outcomes) = copy_i
    /\ kept_count = Cardinality(Succeeded)
    /\ pc \in {"done", "crashed"} => Len(outcomes) = Len(found_md5s)

\* C8's case: the first kept title fails, the second is produced and counted.
MaterializeWitness ==
    /\ pc = "done"
    /\ Len(found_md5s) = 2
    /\ outcomes[1] \in {"BadZipFile", "NoEntry", "OSError", "RenameError"}
    /\ outcomes[2] = "ok"
    /\ kept_count = 1

\* The flat path a kept entry is materialized at.
DestPath(f) ==
    IF Lower(f.ext) = ".zip"
    THEN <<"", RomMembers(f.members)[1].stem, RomMembers(f.members)[1].ext>>
    ELSE <<"", f.stem, f.ext>>

\* C9: after materialization the destination holds, for every title counted
\* as produced, a flat file whose digest is the digest kept for the title.
OutputRoundTrip ==
    pc = "done" =>
        \A k \in Succeeded :
            LET path == DestPath(FileOf(rom_files, found_md5s[k].rom_file))
            IN  /\ path \in DOMAIN output_folder
                /\ output_folder[path] = found_md5s[k].md5

(***************************************************************************)
(* The Catalog Builder: get_all_n64_games and the client it calls.         *)
(* A title is a sequence of tokens; ParentGameID is None or the parent's   *)
(* id as a string.                                                         *)
(***************************************************************************)
max_retries == 3

\* The factor of "wait_time = 30 * retry_count".
BackoffUnit == 30

DigitChars == <<"0", "1", "2", "3", "4", "5", "6", "7", "8", "9">>

\* str(n) of a natural number, one character per element.
RECURSIVE Digits(_)
Digits(n) ==
    IF n < 10 THEN <<DigitChars[n + 1]>>
    ELSE Digits(n \div 10) \o <<DigitChars[(n % 10) + 1]>>

\* str(e) of the HTTPError raise_for_status() raises for a per-title request:
\* "<status> <kind> Error: <reason> for url: <BASE_URL>/<endpoint>?i=<id>&z=..&y=..".
\* The text between and after the two numbers is one element each; the
\* credentials are taken to hold no "429".
HttpErrorText(status, game_id) ==
    Digits(status) \o <<" Error for url: API?i=">> \o Digits(game_id) \o <<"&z=user&y=key">>

\* '429' in str(e)
Has429(text) ==
    \E k \in 1..(Len(text) - 2) :
        text[k] = "4" /\ text[k + 1] = "2" /\ text[k + 2] = "9"

\* title.startswith('~')
StartsWithTilde(title) == Len(title) > 0 /\ title[1] = "~"

\* The condition of the filtered_games comprehension.
Listed(game) == ~StartsWithTilde(game.Title) /\ ~Contains(game.Title, "[Subset")

\* A faulty variant of Official: titles with a parent are official.
OfficialWithParent(game_data) == ~StartsWithTilde(game_data.game_info.Title)

\* The condition of the official_games comprehension.
Official(game_data) ==
    /\ game_data.game_info.ParentGameID = NoneVal
    /\ ~StartsWithTilde(game_data.game_info.Title)

\* One element of all_games_data_light.
LightRecord(game_data) ==
    [game_id |-> game_data.game_info.ID,
     game_title |-> game_data.game_info.Title,
     supported_hashes |-> game_data.supported_hashes]

\* all_games_data_light
LightOf(data) ==
    [k \in DOMAIN SelectSeq(data, Official) |-> LightRecord(SelectSeq(data, Official)[k])]

\* What the service may answer to the two requests of a title.
TitleTilde == <<"~", "Hack", "~", " ", "Game">>

GameInfos(game) ==
    [ID : {game.ID}, Title : {game.Title, TitleTilde}, ParentGameID : {NoneVal, "1"}]

\* get_game_hashes: data['Results'], or [] when the field is absent.
GameHashes(game_id) ==
    IF game_id % 2 = 1 THEN <<>> ELSE <<[MD5 |-> "aa", Name |-> NameUSA]>>

HttpStatuses == {429, 500}

\* The current title.
CurrentGame == filtered_games[title_i]

\* The position after the while loop's body: the loop again, or the next title.
AfterRetry(rc) == IF rc < max_retries THEN "try" ELSE "title"

\* Lines 18-39: the title list, filtered; a failure returns False (lines 111-117).
FetchList ==
    /\ pc = "list"
    /\ \/ /\ filtered_games' = SelectSeq(all_n64_games, Listed)
          /\ pc' = "title"
       \/ /\ pc' = "failed"
          /\ UNCHANGED filtered_games
    /\ UNCHANGED <<all_n64_games, title_i, retry_count, all_games_data, history,
                   requested, saved, full_json, light_json>>
    /\ UNCHANGED filter_vars

\* Lines 41-50: the next title of the for loop.
NextTitle ==
    /\ pc = "title"
    /\ title_i < Len(filtered_games)
    /\ title_i' = title_i + 1
    /\ retry_count' = 0
    /\ history' = <<>>
    /\ pc' = "try"
    /\ UNCHANGED <<all_n64_games, filtered_games, all_games_data, requested, saved,
                   full_json, light_json>>
    /\ UNCHANGED filter_vars

\* An attempt in the history: which request failed ("none", "info", "hashes")
\* and how (an HTTP status, or 0 for another exception or no failure).
Attempt(failed, status) == [op |-> "attempt", failed |-> failed, status |-> status, secs |-> 0]

\* A backoff sleep in the history.
Sleep(secs) == [op |-> "sleep", failed |-> "none", status |-> 0, secs |-> secs]

\* Lines 51-62: both requests succeed and the record is appended.
FetchTitle ==
    /\ pc = "try"
    /\ \E info \in GameInfos(CurrentGame) :
          all_games_data' = Append(all_games_data,
              [game_info |-> info, supported_hashes |-> GameHashes(CurrentGame.ID)])
    /\ history' = Append(history, Attempt("none", 0))
    /\ requested' = requested \cup {CurrentGame.ID}
    /\ pc' = "title"
    /\ UNCHANGED <<all_n64_games, filtered_games, title_i, retry_count, saved,
                   full_json, light_json>>
    /\ UNCHANGED filter_vars

\* Lines 51-54, 64-72: one of the two requests raises HTTPError.
FetchHttpError ==
    /\ pc = "try"
    /\ \E failed \in {"info", "hashes"}, status \in HttpStatuses :
          IF Has429(HttpErrorText(status, CurrentGame.ID))
          THEN /\ retry_count' = retry_count + 1
               /\ history' = history \o <<Attempt(failed, status),
                                          Sleep(BackoffUnit * (retry_count + 1))>>
               /\ pc' = AfterRetry(retry_count + 1)
          ELSE /\ history' = Append(history, Attempt(failed, status))
               /\ pc' = "title"
               /\ UNCHANGED retry_count
    /\ requested' = requested \cup {CurrentGame.ID}
    /\ UNCHANGED <<all_n64_games, filtered_games, title_i, all_games_data, saved,
                   full_json, light_json>>
    /\ UNCHANGED filter_vars

\* Lines 51-54, 74-76: one of the two requests raises another exception.
FetchOtherError ==
    /\ pc = "try"
    /\ \E failed \in {"info", "hashes"} :
          history' = Append(history, Attempt(failed, 0))
    /\ requested' = requested \cup {CurrentGame.ID}
    /\ pc' = "title"
    /\ UNCHANGED <<all_n64_games, filtered_games, title_i, retry_count,
                   all_games_data, saved, full_json, light_json>>
    /\ UNCHANGED filter_vars

\* Lines 78-109: both artifacts are written and the function returns True.
SaveAll ==
    /\ pc = "title"
    /\ title_i = Len(filtered_games)
    /\ full_json' = all_games_data
    /\ light_json' = LightOf(all_games_data)
    /\ saved' = {"full", "light"}
    /\ pc' = "saved"
    /\ UNCHANGED <<all_n64_games, filtered_games, title_i, retry_count,
                   all_games_data, history, requested>>
    /\ UNCHANGED filter_vars

(***************************************************************************)
(* Inputs of the Catalog Builder.                                          *)
(***************************************************************************)
\* Most titles in the list the service returns.
MaxTitles == 3

ListIds == {12, 1429, 5, 8}

ListTitles == {<<"Game">>, TitleTilde, <<"Game", " ", "[Subset", " - Bonus]">>}

GameLists ==
    UNION {{[k \in DOMAIN ids |-> [ID |-> ids[k], Title |-> t[k]]] : t \in [DOMAIN ids -> ListTitles]}
           : ids \in {q \in DistinctSeqs(ListIds) : Len(q) <= MaxTitles}}

InitCatalog ==
    /\ pc = "list"
    /\ games_data = <<>>
    /\ rom_files = <<>>
    /\ supported_hashes = EmptyDict
    /\ game_priority = EmptyDict
    /\ found_md5s = <<>>
    /\ scan_i = 0
    /\ copy_i = 0
    /\ kept_count = 0
    /\ output_folder = EmptyDict
    /\ outcomes = <<>>
    /\ percent = NoneVal
    /\ all_n64_games \in GameLists
    /\ filtered_games = <<>>
    /\ title_i = 0
    /\ retry_count = 0
    /\ all_games_data = <<>>
    /\ history = <<>>
    /\ requested = {}
    /\ saved = {}
    /\ full_json = <<>>
    /\ light_json = <<>>

NextCatalog ==
    FetchList \/ NextTitle \/ FetchTitle \/ FetchHttpError \/ FetchOtherError \/ SaveAll

SpecCatalog == InitCatalog /\ [][NextCatalog]_vars

(***************************************************************************)
(* Properties of the Catalog Builder (SpecCatalog).                        *)
(***************************************************************************)
\* The attempts of the current title, by position in its history.
Attempts == {k \in DOMAIN history : history[k].op = "attempt"}

\* The backoff sleeps of the current title, in order.
Sleeps == SelectSeq(history, LAMBDA e : e.op = "sleep")

\* The while loop of the current title has ended.
TitleEnded == pc = "title" /\ title_i > 0

\* The ids of the records fetched so far.
FetchedIds == {all_games_data[k].game_info.ID : k \in DOMAIN all_games_data}

\* C5: a title all of whose attempts fail with HTTP 429 is attempted once and
\* retried 3 times, waiting 30s, 60s and 90s, each wait followed by a retry,
\* and is then skipped.
RateLimitRetries ==
    (TitleEnded /\ \A k \in Attempts : history[k].status = 429) =>
        /\ Cardinality(Attempts) = 1 + max_retries
        /\ Len(Sleeps) = max_retries
        /\ \A r \in DOMAIN Sleeps : Sleeps[r].secs = BackoffUnit * r
        /\ \A k \in DOMAIN history :
              history[k].op = "sleep" => k < Len(history) /\ history[k + 1].op = "attempt"
        /\ CurrentGame.ID \notin FetchedIds

\* An attempt that failed with an error other than HTTP 429.
OtherFailure(e) == e.op = "attempt" /\ e.failed # "none" /\ e.status # 429

\* C6: an error other than HTTP 429 ends the title at once: nothing follows
\* the failed attempt (no sleep, no retry), no record is kept for the title,
\* the later titles are still requested and both artifacts are written, the
\* full one with the records fetched.
OtherErrorSkips ==
    /\ \A k \in DOMAIN history :
          OtherFailure(history[k]) =>
              /\ k = Len(history)
              /\ pc \in {"title", "saved"}
              /\ CurrentGame.ID \notin FetchedIds
    /\ pc = "saved" =>
          /\ saved = {"full", "light"}
          /\ full_json = all_games_data
          /\ \A k \in DOMAIN filtered_games : filtered_games[k].ID \in requested

\* The fetched records the light artifact is to hold, by position.
OfficialRecords ==
    {k \in DOMAIN all_games_data :
        /\ all_games_data[k].game_info.ParentGameID = NoneVal
        /\ ~StartsWithTilde(all_games_data[k].game_info.Title)}

\* A title of the list the builder is to leave out.
Excluded(game) == StartsWithTilde(game.Title) \/ Contains(game.Title, "[Subset")

\* C10: the light artifact holds, in fetch order, exactly one
\* {game_id, game_title, supported_hashes} record for each fetched title with
\* no parent and no '~' prefix, and none for any other title; a listed title
\* with a '~' prefix or a "[Subset" marker is never requested and is in
\* neither artifact.
LightProjection ==
    pc = "saved" =>
        /\ "light" \in saved
        /\ Len(light_json) = Cardinality(OfficialRecords)
        /\ \A p \in DOMAIN light_json :
              \E k \in OfficialRecords :
                  /\ Cardinality({j \in OfficialRecords : j <= k}) = p
                  /\ light_json[p] =
                        [game_id |-> all_games_data[k].game_info.ID,
                         game_title |-> all_games_data[k].game_info.Title,
                         supported_hashes |-> all_games_data[k].supported_hashes]
        /\ \A a, b \in DOMAIN filtered_games, x, y \in DOMAIN all_games_data :
              (/\ filtered_games[a].ID = all_games_data[x].game_info.ID
               /\ filtered_games[b].ID = all_games_data[y].game_info.ID
               /\ x < y) => a < b
        /\ \A g \in DOMAIN all_n64_games :
              Excluded(all_n64_games[g]) =>
                  /\ all_n64_games[g].ID \notin requested
                  /\ \A k \in DOMAIN full_json :
                        full_json[k].game_info.ID # all_n64_games[g].ID
                  /\ \A k \in DOMAIN light_json :
                        light_json[k].game_id # all_n64_games[g].ID

\* C10's case: of three listed titles one is excluded and two are fetched, the
\* first of them not official, the second the light artifact's only record.
LightWitness ==
    /\ pc = "saved"
    /\ Len(all_n64_games) = 3
    /\ Len(all_games_data) = 2
    /\ \E g \in DOMAIN all_n64_games :
          Contains(all_n64_games[g].Title, "[Subset") /\ all_n64_games[g].ID \notin requested
    /\ OfficialRecords = {2}
    /\ Len(light_json) = 1
    /\ light_json[1].game_id = all_games_data[2].game_info.ID

(***************************************************************************)
(* The priority index over several titles (SpecIndex).                     *)
(***************************************************************************)
\* Most checksum records of a title when two titles are indexed together.
MaxShared == 2

IndexRecords == [MD5 : {"", "aa", "AA", "bb"}, Name : {NamePlain, NameUSA}]

\* A catalog entry.
CatalogEntry(id, hashes) ==
    [game_id |-> id, game_title |-> TitleOf(id), supported_hashes |-> hashes]

\* No title, one title or two titles, digests shared or not, no candidates.
InitIndex ==
    /\ FilterStart
    /\ rom_files = <<>>
    /\ \/ games_data = <<>>
       \/ \E n \in 0..MaxShared : \E h \in [1..n -> IndexRecords] :
             games_data = <<CatalogEntry(1, h)>>
       \/ \E n1, n2 \in 0..MaxShared :
             \E h1 \in [1..n1 -> IndexRecords], h2 \in [1..n2 -> IndexRecords] :
                games_data = <<CatalogEntry(1, h1), CatalogEntry(2, h2)>>

NextIndex == LoadCatalog

SpecIndex == InitIndex /\ [][NextIndex]_vars

\* The records of the catalog the first loop does not skip, as <<title, record>>
\* positions.
CatalogRecords ==
    UNION {{<<g, k>> : k \in ValidRecords(games_data[g].supported_hashes)}
           : g \in DOMAIN games_data}

\* The record at a position.
RecordAt(x) == games_data[x[1]].supported_hashes[x[2]]

\* Catalog order of two positions.
Before(x, y) == x[1] < y[1] \/ (x[1] = y[1] /\ x[2] <= y[2])

\* The positions of the records carrying a digest.
RecordsWith(md5) == {x \in CatalogRecords : Upper(RecordAt(x).MD5) = md5}

\* The catalog without its g-th title.
Without(g) == SelectSeq(games_data, LAMBDA game : game.game_id # games_data[g].game_id)

\* What C11 says apart from which writer wins: the mapping's keys are the
\* digests of the catalog, each title's preferred digest is the one computed
\* from its own list alone, and a title without a usable record adds nothing.
IndexPerTitle ==
    /\ DOMAIN supported_hashes = {Upper(RecordAt(x).MD5) : x \in CatalogRecords}
    /\ \A g \in DOMAIN games_data :
          /\ DictGet(game_priority, games_data[g].game_id) = PreferredOf(games_data[g])
          /\ ValidRecords(games_data[g].supported_hashes) = {} =>
                /\ games_data[g].game_id \notin DOMAIN game_priority
                /\ BuildIndex(Without(g)).sh = supported_hashes
                /\ BuildIndex(Without(g)).gp = game_priority

\* C11, as claimed: a digest carried by several records keeps the name of the
\* first of them in catalog order, each title's preferred digest is computed
\* from its own records alone, and a title with no record, or only empty
\* digests, adds nothing to either mapping.
IndexFirstWriter ==
    pc # "load" =>
        /\ IndexPerTitle
        /\ \A md5 \in DOMAIN supported_hashes :
              \E x \in RecordsWith(md5) :
                  /\ \A y \in RecordsWith(md5) : Before(x, y)
                  /\ supported_hashes[md5] = RecordAt(x).Name

\* C11, amended: a digest carried by several records keeps the name of the
\* last of them in catalog order; the rest as claimed.
IndexLastWriter ==
    pc # "load" =>
        /\ IndexPerTitle
        /\ \A md5 \in DOMAIN supported_hashes :
              \E x \in RecordsWith(md5) :
                  /\ \A y \in RecordsWith(md5) : Before(y, x)
                  /\ supported_hashes[md5] = RecordAt(x).Name

\* C11's case: two titles carry one digest under different names, the second
\* title's name is the one kept, and the two titles prefer different digests.
IndexWitness ==
    /\ pc # "load"
    /\ Len(games_data) = 2
    /\ \E a \in DOMAIN games_data[1].supported_hashes,
          b \in DOMAIN games_data[2].supported_hashes :
          /\ Upper(games_data[1].supported_hashes[a].MD5) =
                Upper(games_data[2].supported_hashes[b].MD5)
          /\ games_data[1].supported_hashes[a].MD5 # ""
          /\ games_data[1].supported_hashes[a].Name # games_data[2].supported_hashes[b].Name
          /\ b = Len(games_data[2].supported_hashes)
          /\ supported_hashes[Upper(games_data[2].supported_hashes[b].MD5)] =
                games_data[2].supported_hashes[b].Name
    /\ 1 \in DOMAIN game_priority
    /\ 2 \in DOMAIN game_priority
    /\ game_priority[1] # game_priority[2]

====
